---------------------------- MODULE Spec2Model ----------------------------
(***************************************************************************)
(* A model of src/tree.py (PyTree): NonTerminalNode, a list of children    *)
(* that keeps every child's parent back-reference, and                     *)
(* BiDirectionalLookupNonTerminalNode, which adds the reverse-lookup       *)
(* dictionary child -> index and the gap-filling append.                   *)
(*                                                                         *)
(* One container is modelled.  A child is a number in 1..NumChildren, the  *)
(* empty placeholder None is 0 (Python 2 orders None before every object,  *)
(* so the numeric order is the order list.sort uses).  Positions and the   *)
(* values of the reverse map are Python's 0-based indices.  A method is an *)
(* operator from the object's state, a record                              *)
(*    [ch  : the list itself,                                              *)
(*     ix  : self.__indices,                                               *)
(*     lai : self.__last_automatically_added_index,                        *)
(*     par : the parent attribute of every child ("self" or "none"),       *)
(*     err : "ok" or the exception that ended the call],                   *)
(* to the state the call leaves behind, exception included: the statements *)
(* executed before a raise keep their effect.                              *)
(***************************************************************************)
EXTENDS Integers, Sequences, FiniteSets, TLC

\* ------------------------------------------------------------- bounds
NumChildren == 3
MaxLen == 3
MaxArgLen == 1
MaxCalls == 2

\* ------------------------------------------------------------- values
None == 0
Children == 1..NumChildren
Values == Children \cup {None}

Range(seq) == {seq[i] : i \in 1..Len(seq)}
Min(a, b) == IF a < b THEN a ELSE b
Max(a, b) == IF a < b THEN b ELSE a

\* dict operations on self.__indices
dict_set(d, k, v) == [x \in (DOMAIN d) \cup {k} |-> IF x = k THEN v ELSE d[x]]
dict_del(d, k) == [x \in (DOMAIN d) \ {k} |-> d[x]]
EmptyDict == [x \in {} |-> 0]

\* ------------------------------------------------------------- list
\* seq[idx] for a Python index idx >= 0
At(seq, idx) == seq[idx + 1]

\* A negative index counts from the end.
norm_index(seq, index) == IF index < 0 THEN index + Len(seq) ELSE index

index_ok(seq, index) == norm_index(seq, index) >= 0 /\ norm_index(seq, index) < Len(seq)

\* list.__getslice__(start, stop): both ends clamped into 0..len
list_getslice(seq, start, stop) ==
    LET lo == Min(Max(start, 0), Len(seq))
        hi == Min(Max(stop, 0), Len(seq))
    IN  SubSeq(seq, lo + 1, hi)

\* self[start:stop]: the interpreter adds len to a negative end first
py_getslice(seq, start, stop) ==
    list_getslice(seq, norm_index(seq, start), norm_index(seq, stop))

\* list.__setslice__(start, stop, new)
list_setslice(seq, start, stop, new) ==
    LET lo == Min(Max(start, 0), Len(seq))
        hi == Max(lo, Min(Max(stop, 0), Len(seq)))
    IN  SubSeq(seq, 1, lo) \o new \o SubSeq(seq, hi + 1, Len(seq))

list_delslice(seq, start, stop) == list_setslice(seq, start, stop, << >>)

\* list.__delitem__(index), index valid
list_delitem(seq, index) ==
    LET i == norm_index(seq, index)
    IN  SubSeq(seq, 1, i) \o SubSeq(seq, i + 2, Len(seq))

\* list.__setitem__(index, child), index valid
list_setitem(seq, index, child) == [seq EXCEPT ![norm_index(seq, index) + 1] = child]

\* list.insert(index, child): an index past the end appends
list_insert(seq, index, child) ==
    LET i == Min(Max(norm_index(seq, index), 0), Len(seq))
    IN  SubSeq(seq, 1, i) \o <<child>> \o SubSeq(seq, i + 1, Len(seq))

list_reverse(seq) == [i \in 1..Len(seq) |-> seq[Len(seq) + 1 - i]]

\* list.sort(): insertion of each element into the sorted rest
RECURSIVE sorted_insert(_, _)
sorted_insert(seq, x) ==
    IF seq = << >> THEN <<x>>
    ELSE IF x < Head(seq) THEN <<x>> \o seq
    ELSE <<Head(seq)>> \o sorted_insert(Tail(seq), x)

RECURSIVE list_sort(_)
list_sort(seq) ==
    IF seq = << >> THEN << >>
    ELSE sorted_insert(list_sort(SubSeq(seq, 1, Len(seq) - 1)), seq[Len(seq)])

list_count(seq, value) == Cardinality({i \in 1..Len(seq) : seq[i] = value})

\* ------------------------------------------------------------- module functions
is_assigned(idx, seq) ==
    IF Len(seq) <= idx THEN FALSE ELSE At(seq, idx) # None

\* _set_parent: None has no parent attribute, the AttributeError is swallowed
set_parent(s, child, parent) ==
    IF child \in Children THEN [s EXCEPT !.par[child] = parent] ELSE s

\* for child in seq: _set_parent(child, parent)
set_parents(s, seq, parent) ==
    [s EXCEPT !.par = [c \in Children |-> IF c \in Range(seq) THEN parent ELSE @[c]]]

raise(s, e) == [s EXCEPT !.err = e]

\* ------------------------------------------------------------- NonTerminalNode
NTN_init(initial) ==
    set_parents([ch |-> initial, ix |-> EmptyDict, lai |-> -1,
                 par |-> [c \in Children |-> "none"], err |-> "ok"],
                initial, "self")

NTN_delitem(s, index) ==
    IF ~index_ok(s.ch, index) THEN raise(s, "IndexError")
    ELSE LET deletee == At(s.ch, norm_index(s.ch, index))
         IN  set_parent([s EXCEPT !.ch = list_delitem(@, index)], deletee, "none")

NTN_delslice(s, start, stop) ==
    LET deletee_slice == list_getslice(s.ch, start, stop)
    IN  set_parents([s EXCEPT !.ch = list_delslice(@, start, stop)], deletee_slice, "none")

NTN_setitem(s, index, child) ==
    IF ~index_ok(s.ch, index) THEN raise(s, "IndexError")
    ELSE set_parent([s EXCEPT !.ch = list_setitem(@, index, child)], child, "self")

NTN_setslice(s, start, stop, seq) ==
    LET s1 == [s EXCEPT !.ch = list_setslice(@, start, stop, seq)]
        new_child_count == Min(stop - start - 1, Len(seq))
        new_children == py_getslice(s1.ch, start, start + new_child_count)
    IN  set_parents(s1, new_children, "self")

NTN_append(s, child) ==
    set_parent([s EXCEPT !.ch = Append(@, child)], child, "self")

NTN_extend(s, iterable) ==
    set_parents([s EXCEPT !.ch = @ \o iterable], iterable, "self")

\* pop(*args): index -1 is also what pop() without an argument removes
NTN_pop(s, index) ==
    IF ~index_ok(s.ch, index) THEN raise(s, "IndexError")
    ELSE LET child == At(s.ch, norm_index(s.ch, index))
         IN  set_parent([s EXCEPT !.ch = list_delitem(@, index)], child, "none")

\* NonTerminalNode defines no insert: list.insert runs, no parent is set
NTN_insert(s, index, child) == [s EXCEPT !.ch = list_insert(@, index, child)]

\* ------------------------------------------------------------- BiDirectionalLookupNonTerminalNode
\* for index, child in enumerate(seq): d[child] = index + offset
enumerate_into(d, seq, offset) ==
    [k \in (DOMAIN d) \cup Range(seq) |->
        IF k \in Range(seq)
        THEN offset + (CHOOSE i \in 1..Len(seq) :
                          seq[i] = k /\ \A j \in (i + 1)..Len(seq) : seq[j] # k) - 1
        ELSE d[k]]

BDL_init(initial) ==
    [NTN_init(initial) EXCEPT !.ix = enumerate_into(EmptyDict, initial, 0), !.lai = -1]

\* __delete_from_indices: a missing key is ignored
BDL_delete_from_indices(s, child) == [s EXCEPT !.ix = dict_del(@, child)]

\* for child in seq: self.__delete_from_indices(child)
BDL_delete_all_from_indices(s, seq) ==
    [s EXCEPT !.ix = [k \in (DOMAIN @) \ Range(seq) |-> @[k]]]

\* the loop of __update_dict_indices: a KeyError leaves the earlier shifts done
RECURSIVE update_loop(_, _, _)
update_loop(s, items, shift_value) ==
    IF items = << >> THEN s
    ELSE IF Head(items) \notin DOMAIN s.ix THEN raise(s, "KeyError")
    ELSE update_loop([s EXCEPT !.ix[Head(items)] = @ + shift_value], Tail(items), shift_value)

BDL_update_dict_indices(s, start, stop, shift_value) ==
    update_loop(s, list_getslice(s.ch, start, stop), shift_value)

BDL_delitem(s, index) ==
    IF ~index_ok(s.ch, index) THEN raise(s, "IndexError")
    ELSE LET deletee == At(s.ch, norm_index(s.ch, index))
             s1 == NTN_delitem(s, index)
             s2 == BDL_delete_from_indices(s1, deletee)
         IN  BDL_update_dict_indices(s2, index + 1, Len(s2.ch), -1)

BDL_delslice(s, start, stop) ==
    LET deletee_slice == py_getslice(s.ch, start, stop)
        s1 == NTN_delslice(s, start, stop)
        s2 == BDL_delete_all_from_indices(s1, deletee_slice)
        shift_value == Len(deletee_slice) * (-1)
    IN  BDL_update_dict_indices(s2, start, stop, shift_value)

\* __ensure_valid_index: while len(self) <= index: append(None)
RECURSIVE BDL_ensure_valid_index(_, _)
BDL_ensure_valid_index(s, index) ==
    IF Len(s.ch) <= index THEN BDL_ensure_valid_index(NTN_append(s, None), index)
    ELSE s

BDL_setitem(s, index, child) ==
    IF Len(s.ch) > index
    THEN IF ~index_ok(s.ch, index) THEN raise(s, "IndexError")
         ELSE LET replacee == At(s.ch, norm_index(s.ch, index))
                  s1 == NTN_setitem(s, index, child)
                  s2 == BDL_delete_from_indices(s1, replacee)
              IN  [s2 EXCEPT !.ix = dict_set(@, child, index)]
    ELSE NTN_setitem(BDL_ensure_valid_index(s, index), index, child)

\* the while loop of __setslice__
RECURSIVE setslice_loop(_, _, _, _, _)
setslice_loop(s, seq, replaced_item_index, seq_item_index, stop) ==
    IF ~(replaced_item_index < stop) THEN s
    ELSE IF seq_item_index >= Len(seq) THEN raise(s, "IndexError")
    ELSE setslice_loop([s EXCEPT !.ix = dict_set(@, At(seq, seq_item_index), replaced_item_index)],
                       seq, replaced_item_index + 1, seq_item_index + 1, stop)

BDL_setslice(s, start, stop, seq) ==
    LET replacee_slice == py_getslice(s.ch, start, stop)
        s1 == NTN_setslice(s, start, stop, seq)
        s2 == BDL_delete_all_from_indices(s1, replacee_slice)
    IN  setslice_loop(s2, seq, start, 0, stop)

\* the while loop of __get_next_free_index
RECURSIVE next_free_loop(_, _)
next_free_loop(seq, next_free_index) ==
    IF is_assigned(next_free_index, seq) THEN next_free_loop(seq, next_free_index + 1)
    ELSE next_free_index

\* a variant that ignores the gaps and answers the physical end, as list.append would
BDL_get_next_free_index_end(s) == Len(s.ch)

\* a variant that does not scan: the position after the last automatic one
BDL_get_next_free_index_noscan(s) == s.lai + 1

BDL_get_next_free_index(s) == next_free_loop(s.ch, s.lai + 1)

BDL_append(s, child) ==
    LET index == BDL_get_next_free_index(s)
        s1 == BDL_setitem(s, index, child)
    IN  IF s1.err # "ok" THEN s1 ELSE [s1 EXCEPT !.lai = index]

BDL_count(s, value) ==
    IF value \in DOMAIN s.ix THEN 1
    ELSE IF value = None THEN list_count(s.ch, value)
    ELSE 0

RECURSIVE BDL_extend(_, _)
BDL_extend(s, iterable) ==
    IF iterable = << >> \/ s.err # "ok" THEN s
    ELSE BDL_extend(BDL_append(s, Head(iterable)), Tail(iterable))

BDL_index(s, child) ==
    IF child \in DOMAIN s.ix THEN s ELSE raise(s, "KeyError")

\* a variant that inserts first and shifts afterwards
BDL_insert_shift_after(s, index, child) ==
    LET s1 == [s EXCEPT !.ch = list_insert(@, index, child)]
        s2 == BDL_update_dict_indices(s1, index, Len(s.ch), 1)
    IN  IF s2.err # "ok" THEN s2
        ELSE IF child # None THEN [s2 EXCEPT !.ix = dict_set(@, child, index)]
        ELSE s2

BDL_insert(s, index, child) ==
    LET s1 == BDL_update_dict_indices(s, index, Len(s.ch), 1)
        s2 == [s1 EXCEPT !.ch = list_insert(@, index, child)]
    IN  IF s1.err # "ok" THEN s1
        ELSE IF child # None THEN [s2 EXCEPT !.ix = dict_set(@, child, index)]
        ELSE s2

BDL_pop(s, index) ==
    LET s1 == NTN_pop(s, index)
    IN  IF s1.err # "ok" THEN s1
        ELSE LET item == At(s.ch, norm_index(s.ch, index))
             IN  IF item \notin DOMAIN s1.ix THEN raise(s1, "KeyError")
                 ELSE [s1 EXCEPT !.ix = dict_del(@, item)]

BDL_remove(s, item) ==
    IF item \notin DOMAIN s.ix THEN raise(s, "KeyError")
    ELSE BDL_delitem(s, s.ix[item])

\* a variant that recomputes the entries first and reverses the list afterwards
BDL_reverse_early(s) ==
    LET s1 == [s EXCEPT !.ix = enumerate_into(@, s.ch, 0)]
    IN  [s1 EXCEPT !.ch = list_reverse(@)]

BDL_reverse(s) ==
    LET s1 == [s EXCEPT !.ch = list_reverse(@)]
    IN  [s1 EXCEPT !.ix = enumerate_into(@, s1.ch, 0)]

\* the caller's cmp, key and reverse are not passed on to list.sort
BDL_sort(s, reverse) ==
    LET s1 == [s EXCEPT !.ch = list_sort(@)]
    IN  [s1 EXCEPT !.ix = enumerate_into(@, s1.ch, 0)]

\* ------------------------------------------------------------- state
VARIABLES
    layer,      \* the class of the container: "base" (NonTerminalNode) or "indexed"
    children,   \* the list
    indices,    \* self.__indices
    last_automatically_added_index,
    parent,     \* the parent attribute of every child: "self" or "none"
    last,       \* the last call: its name, its arguments and how it ended
    calls       \* the number of calls made since construction

vars == <<layer, children, indices, last_automatically_added_index, parent, last, calls>>

\* the object as the methods see it
self == [ch |-> children, ix |-> indices, lai |-> last_automatically_added_index,
         par |-> parent, err |-> "ok"]

Indexed == layer = "indexed"

\* all sequences over S of length at most n
AllSeqs(S, n) == UNION {[1..m -> S] : m \in 0..n}

NoRepeat(q) == \A i, j \in 1..Len(q) : i # j => q[i] # q[j]

ArgSeqs == AllSeqs(Values, MaxArgLen)
InitialSeqs == AllSeqs(Values, MaxLen)

\* The arguments a caller passes.  With any = FALSE the usage the class asks for:
\* a child is not None and is not in the container already; with any = TRUE
\* every value, None and children already present included.
ChildArgs(any) == IF any THEN Values ELSE Children \ Range(children)
SeqArgs(any) ==
    IF any THEN ArgSeqs
    ELSE {q \in ArgSeqs : NoRepeat(q) /\ Range(q) \subseteq Children \ Range(children)}
InitialArgs(any) ==
    IF any THEN InitialSeqs
    ELSE {q \in InitialSeqs : NoRepeat(q) /\ Range(q) \subseteq Children}

Call(op, index, stop, child, seq) ==
    [op |-> op, index |-> index, stop |-> stop, child |-> child, seq |-> seq, err |-> "ok"]

\* the model's bounds on what a call may leave behind
InBounds(s) == Len(s.ch) <= MaxLen

\* the model follows the container for MaxCalls calls
CanCall == calls < MaxCalls

\* the state after a call that left s
Becomes(s, call) ==
    /\ InBounds(s)
    /\ children' = s.ch
    /\ indices' = s.ix
    /\ last_automatically_added_index' = s.lai
    /\ parent' = s.par
    /\ last' = [call EXCEPT !.err = s.err]
    /\ calls' = calls + 1
    /\ UNCHANGED layer

\* construction: NonTerminalNode(None, initial) or
\* BiDirectionalLookupNonTerminalNode(None, initial)
Construct(any) ==
    \E l \in {"base", "indexed"}, initial \in InitialArgs(any) :
        LET s == IF l = "indexed" THEN BDL_init(initial) ELSE NTN_init(initial)
        IN  /\ layer = l
            /\ children = s.ch
            /\ indices = s.ix
            /\ last_automatically_added_index = s.lai
            /\ parent = s.par
            /\ last = Call("init", -1, -1, None, initial)
            /\ calls = 0

\* ------------------------------------------------------------- operations
AppendOp(any) ==
    /\ CanCall
    /\ \E child \in ChildArgs(any) :
           Becomes(IF Indexed THEN BDL_append(self, child) ELSE NTN_append(self, child),
                   Call("append", -1, -1, child, << >>))

ExtendOp(any) ==
    /\ CanCall
    /\ \E seq \in SeqArgs(any) :
           Becomes(IF Indexed THEN BDL_extend(self, seq) ELSE NTN_extend(self, seq),
                   Call("extend", -1, -1, None, seq))

InsertOp(any) ==
    /\ CanCall
    /\ \E index \in 0..(Len(children) + 1), child \in ChildArgs(any) :
           Becomes(IF Indexed THEN BDL_insert(self, index, child)
                   ELSE NTN_insert(self, index, child),
                   Call("insert", index, -1, child, << >>))

SetItemOp(any) ==
    /\ CanCall
    /\ \E index \in 0..(MaxLen - 1), child \in ChildArgs(any) :
           Becomes(IF Indexed THEN BDL_setitem(self, index, child)
                   ELSE NTN_setitem(self, index, child),
                   Call("set", index, -1, child, << >>))

SetSliceOp(any) ==
    /\ CanCall
    /\ \E start \in 0..Len(children), seq \in SeqArgs(any) :
           \E stop \in start..Len(children) :
               Becomes(IF Indexed THEN BDL_setslice(self, start, stop, seq)
                       ELSE NTN_setslice(self, start, stop, seq),
                       Call("set_slice", start, stop, None, seq))

DelItemOp ==
    /\ CanCall
    /\ \E index \in 0..Len(children) :
           Becomes(IF Indexed THEN BDL_delitem(self, index) ELSE NTN_delitem(self, index),
                   Call("delete", index, -1, None, << >>))

DelSliceOp ==
    /\ CanCall
    /\ \E start \in 0..Len(children) :
           \E stop \in start..Len(children) :
               Becomes(IF Indexed THEN BDL_delslice(self, start, stop)
                       ELSE NTN_delslice(self, start, stop),
                       Call("delete_slice", start, stop, None, << >>))

PopOp ==
    /\ CanCall
    /\ \E index \in (-1)..Len(children) :
           Becomes(IF Indexed THEN BDL_pop(self, index) ELSE NTN_pop(self, index),
                   Call("pop", index, -1, None, << >>))

\* the methods only the indexed class defines
RemoveOp ==
    /\ CanCall
    /\ Indexed
    /\ \E item \in Children :
           Becomes(BDL_remove(self, item), Call("remove", -1, -1, item, << >>))

ReverseOp ==
    /\ CanCall
    /\ Indexed
    /\ Becomes(BDL_reverse(self), Call("reverse", -1, -1, None, << >>))

SortOp ==
    /\ CanCall
    /\ Indexed
    /\ \E reverse \in BOOLEAN :
           Becomes(BDL_sort(self, reverse),
                   Call("sort", -1, -1, None, << >>))

\* the usage the class asks for: unique children, never None
Init == Construct(FALSE)

Next ==
    \/ AppendOp(FALSE)
    \/ ExtendOp(FALSE)
    \/ InsertOp(FALSE)
    \/ SetItemOp(FALSE)
    \/ SetSliceOp(FALSE)
    \/ DelItemOp
    \/ DelSliceOp
    \/ PopOp
    \/ RemoveOp
    \/ ReverseOp
    \/ SortOp

Spec == Init /\ [][Next]_vars

\* Every call the classes accept: the initial list and the arguments may hold
\* None and children that are in the container already.
InitAny == Construct(TRUE)

NextAny ==
    \/ AppendOp(TRUE)
    \/ ExtendOp(TRUE)
    \/ InsertOp(TRUE)
    \/ SetItemOp(TRUE)
    \/ SetSliceOp(TRUE)
    \/ DelItemOp
    \/ DelSliceOp
    \/ PopOp
    \/ RemoveOp
    \/ ReverseOp
    \/ SortOp

SpecAny == InitAny /\ [][NextAny]_vars

\* ------------------------------------------------------------- properties
\* a value that is no Node: it has no parent attribute (a leaf)
Leaf == NumChildren + 1

Positions(seq) == 0..(Len(seq) - 1)

\* the reverse map agrees with the list, in both directions
Sound(seq, d) ==
    /\ \A i \in Positions(seq) :
           At(seq, i) # None => At(seq, i) \in DOMAIN d /\ d[At(seq, i)] = i
    /\ \A c \in DOMAIN d : d[c] \in Positions(seq) /\ At(seq, d[c]) = c

AllOccupied(seq) == \A i \in Positions(seq) : At(seq, i) # None

\* C1: in the indexed container, after any sequence of calls, every occupied
\* position i has indices[children[i]] = i, and every entry c -> p of indices
\* names a position p that exists and holds exactly c.
C1_ReverseMapSound == Indexed => Sound(children, indices)

\* C2: the keys of indices are exactly the children (not None) in the list.
C2_ReverseMapComplete == Indexed => DOMAIN indices = Range(children) \ {None}

\* C3: every child in an occupied position has the container as its parent.
C3_ParentConsistent ==
    \A i \in Positions(children) :
        At(children, i) \in Children => parent[At(children, i)] = "self"

\* C4: a child whose parent is the container and which delete, pop,
\* delete_slice or set takes out of the list has its parent cleared by the call.
C4_RemovedChildDetached ==
    [][last'.op \in {"delete", "pop", "delete_slice", "set"} =>
          \A c \in Children :
              (c \in Range(children) /\ parent[c] = "self" /\ c \notin Range(children'))
                  => parent'[c] = "none"]_vars

\* C5: delete(index), and remove(child), on an indexed container whose indices
\* agrees with its list: the removed child's entry is gone, its parent is cleared,
\* index(child) raises KeyError, every child past the removal point has its entry
\* decreased by one, so indices again agrees with the list.
C5_DeleteShiftsDown ==
    [][\A i \in Positions(children) :
          (/\ Indexed
           /\ Sound(children, indices)
           /\ \/ last'.op = "delete" /\ last'.index = i
              \/ last'.op = "remove" /\ last'.child = At(children, i))
          => LET c == At(children, i)
             IN  /\ last'.err = "ok"
                 /\ children' = list_delitem(children, i)
                 /\ c \notin DOMAIN indices'
                 /\ c \in Children => parent'[c] = "none"
                 /\ \A k \in Positions(children) \ {i} :
                        LET d == At(children, k)
                        IN  d # None =>
                                /\ d \in DOMAIN indices'
                                /\ indices'[d] = IF k > i THEN k - 1 ELSE k
                 /\ Sound(children', indices')]_vars

\* what insert(index, child) must leave behind, from state s
InsertShiftsUp(s, index, child) ==
    LET r == BDL_insert(s, index, child)
    IN  /\ r.err = "ok"
        /\ Len(r.ch) = Len(s.ch) + 1
        /\ At(r.ch, index) = child
        /\ \A k \in Positions(s.ch) :
               LET d == At(s.ch, k)
                   to == IF k >= index THEN k + 1 ELSE k
               IN  At(r.ch, to) = d /\ d \in DOMAIN r.ix /\ r.ix[d] = to
        /\ child \in DOMAIN r.ix /\ r.ix[child] = index
        /\ Sound(r.ch, r.ix)

\* C6: insert(index, child) on an indexed container whose slots are all occupied
\* and whose indices agrees with its list, 0 <= index <= length, child not
\* present: child is at position index, the entry of every child that was at a
\* position >= index is one more, indices[child] = index, and indices agrees
\* with the new list.
C6_InsertShiftsUp ==
    (Indexed /\ AllOccupied(children) /\ Sound(children, indices)) =>
        \A index \in 0..Len(children), child \in Children \ Range(children) :
            InsertShiftsUp(self, index, child)

\* C6's case: insert(1, D) on a constructed [A, C] gave [A, D, C] with
\* indices {A: 0, D: 1, C: 2}
C6_Witness ==
    /\ Indexed /\ calls = 1
    /\ last.op = "insert" /\ last.err = "ok" /\ last.index = 1
    /\ Len(children) = 3
    /\ At(children, 1) = last.child
    /\ Sound(children, indices)
    /\ indices[At(children, 2)] = 2

\* a position append may use: None, or at or past the end
Free(seq, p) == p >= Len(seq) \/ At(seq, p) = None

FirstFree(seq, from) ==
    CHOOSE p \in from..Max(from, Len(seq)) :
        Free(seq, p) /\ \A q \in from..(p - 1) : ~Free(seq, q)

AppendFillsFirstGap(s, child) ==
    LET r == BDL_append(s, child)
        p == FirstFree(s.ch, s.lai + 1)
    IN  /\ r.err = "ok"
        /\ Len(r.ch) = Max(Len(s.ch), p + 1)
        /\ At(r.ch, p) = child
        /\ r.lai = p
        /\ \A q \in Len(s.ch)..(p - 1) : At(r.ch, q) = None

GapExample ==
    LET s == BDL_init(<<1, None, 2, None, 3>>)
        r == BDL_append(s, Leaf)
    IN  /\ s.lai = -1
        /\ AppendFillsFirstGap(s, Leaf)
        /\ r.ch = <<1, Leaf, 2, None, 3>>
        /\ r.lai = 1

C8_AppendRegisters ==
    (Indexed /\ last.op = "append" /\ last.err = "ok") =>
        /\ At(children, last_automatically_added_index) = last.child
        /\ last.child \in DOMAIN indices
        /\ indices[last.child] = last_automatically_added_index
        /\ BDL_index(self, last.child).err = "ok"
        /\ BDL_count(self, last.child) = 1

\* C9: under the usage the class asks for, pop(index) on a valid index that
\* holds a child succeeds, removes that child from the list, clears its parent
\* and removes its indices entry.
C9_PopSucceeds ==
    [][(/\ Indexed
        /\ last'.op = "pop"
        /\ index_ok(children, last'.index)
        /\ At(children, norm_index(children, last'.index)) # None)
       => LET c == At(children, norm_index(children, last'.index))
          IN  /\ last'.err = "ok"
              /\ children' = list_delitem(children, last'.index)
              /\ parent'[c] = "none"
              /\ c \notin DOMAIN indices']_vars

\* C10: a call on the indexed container that fails leaves the list, indices,
\* last_automatically_added_index and every parent as they were.
C10_FailureAtomic ==
    [][(/\ Indexed
        /\ last'.err # "ok"
        /\ last'.op \in {"pop", "delete", "remove", "insert", "set", "set_slice",
                         "delete_slice"})
       => UNCHANGED <<children, indices, last_automatically_added_index, parent>>]_vars

\* the positions of seq that hold c
Slots(seq, c) == {i \in Positions(seq) : At(seq, i) = c}

\* no child is in two positions
UniqueChildren(seq) == \A c \in Children : Cardinality(Slots(seq, c)) <= 1

\* C11: append, insert or set of a child that is already in the indexed
\* container (whose children are unique and whose indices agrees with the list)
\* either fails or leaves that child in exactly one position, the one
\* indices[child] names.
C11_PresentChildStaysUnique ==
    [][(/\ Indexed
        /\ UniqueChildren(children)
        /\ Sound(children, indices)
        /\ last'.op \in {"append", "insert", "set"}
        /\ last'.child \in Range(children) \ {None}
        /\ last'.err = "ok")
       => /\ last'.child \in DOMAIN indices'
          /\ Slots(children', last'.child) = {indices'[last'.child]}]_vars

\* C12: indices never has the key None, whatever the initial list and the
\* calls were.
C12_NoPlaceholderKey == Indexed => None \notin DOMAIN indices

\* C13: set(index, child) on the indexed container, index >= 0, child not
\* present: the call succeeds; an index at or past the end pads the list with
\* None to length index + 1; children[index] is child and indices[child] = index;
\* the child that was at index has no entry any more; no other child's entry
\* changes.
C13_SetRegisters ==
    [][(/\ Indexed
        /\ last'.op = "set"
        /\ last'.child \in Children \ Range(children))
       => LET index == last'.index
              child == last'.child
              displaced == IF index < Len(children) THEN At(children, index) ELSE None
          IN  /\ last'.err = "ok"
              /\ Len(children') = Max(Len(children), index + 1)
              /\ At(children', index) = child
              /\ \A q \in Len(children)..(index - 1) : At(children', q) = None
              /\ child \in DOMAIN indices'
              /\ indices'[child] = index
              /\ displaced # None => displaced \notin DOMAIN indices'
              /\ \A c \in Children \ {child, displaced} :
                     /\ (c \in DOMAIN indices') = (c \in DOMAIN indices)
                     /\ c \in DOMAIN indices => indices'[c] = indices[c]]_vars

\* C14: delete_slice(start, stop), 0 <= start <= stop <= length, on an indexed
\* container whose slots are all occupied and whose indices agrees with the
\* list: the removed children have no entry, every child that was at a position
\* >= stop has its entry decreased by stop - start, and indices agrees with the
\* new list.
C14_DeleteSliceShiftsDown ==
    [][(/\ Indexed
        /\ AllOccupied(children)
        /\ Sound(children, indices)
        /\ last'.op = "delete_slice")
       => LET start == last'.index
              stop == last'.stop
          IN  /\ last'.err = "ok"
              /\ children' = list_delslice(children, start, stop)
              /\ \A k \in Positions(children) :
                     LET d == At(children, k)
                     IN  IF start <= k /\ k < stop THEN d \notin DOMAIN indices'
                         ELSE /\ d \in DOMAIN indices'
                              /\ indices'[d] = IF k >= stop THEN k - (stop - start) ELSE k
              /\ Sound(children', indices')]_vars

\* C15: set_slice(start, stop, new_children) on the base container,
\* 0 <= start <= stop <= length, new_children of any length: the range is
\* replaced by new_children, every child of new_children has the container as
\* its parent, and every child of the old range that is not in new_children has
\* its parent cleared.
C15_SetSliceParents ==
    [][(/\ layer = "base"
        /\ last'.op = "set_slice")
       => LET start == last'.index
              stop == last'.stop
              seq == last'.seq
              replaced == SubSeq(children, start + 1, stop)
          IN  /\ last'.err = "ok"
              /\ children' = list_setslice(children, start, stop, seq)
              /\ \A c \in Children :
                     /\ c \in Range(seq) => parent'[c] = "self"
                     /\ (c \in Range(replaced) /\ c \notin Range(seq))
                            => parent'[c] = "none"]_vars

\* list.sort(reverse=flag) of a plain list
plain_sort(seq, reverse) ==
    IF reverse THEN list_reverse(list_sort(seq)) ELSE list_sort(seq)

\* C16: sort with the caller's order leaves the list a plain list would have
\* after the same call; sort(reverse=True) gives the descending order.  (cmp and
\* key are dropped in the same statement as reverse.)
C16_SortHonoursOrder ==
    Indexed => \A reverse \in BOOLEAN :
                   BDL_sort(self, reverse).ch = plain_sort(children, reverse)

\* the same values, each as often
SameChildren(a, b) == \A v \in Values : list_count(a, v) = list_count(b, v)

\* C17: in any state of the indexed container with unique children, whatever
\* indices holds, a reverse() or sort() leaves every occupied position i with
\* indices[children[i]] = i, and the children in the list and every child's
\* parent are the same as before.
C17_ReorderRecomputes ==
    [][(/\ Indexed
        /\ UniqueChildren(children)
        /\ last'.op \in {"reverse", "sort"})
       => /\ last'.err = "ok"
          /\ \A i \in Positions(children') :
                 At(children', i) # None =>
                     /\ At(children', i) \in DOMAIN indices'
                     /\ indices'[At(children', i)] = i
          /\ SameChildren(children, children')
          /\ parent' = parent]_vars

\* C17's case: append on a constructed [A] put B at position 1 without an
\* entry (last_automatically_added_index = 1 is that append), and the reverse()
\* that followed left [B, A] with both entries right
C17_Witness ==
    /\ Indexed /\ calls = 2
    /\ last.op = "reverse" /\ last.err = "ok"
    /\ last_automatically_added_index = 1
    /\ Len(children) = 2
    /\ AllOccupied(children)
    /\ At(children, 0) # At(children, 1)
    /\ Sound(children, indices)

\* C18: insert(index, child) with index > length on an indexed container whose
\* indices agrees with the list, child not present: child is appended (the list
\* grows by one, no None is added) and indices[child] is the old length, the
\* position child is at.
C18_InsertPastEndClamps ==
    [][(/\ Indexed
        /\ Sound(children, indices)
        /\ last'.op = "insert"
        /\ last'.index > Len(children)
        /\ last'.child \in Children \ Range(children))
       => /\ last'.err = "ok"
          /\ children' = Append(children, last'.child)
          /\ last'.child \in DOMAIN indices'
          /\ indices'[last'.child] = Len(children)]_vars

\* C19: pop(i), i valid, on an indexed container with at least two children,
\* all slots occupied, indices agreeing with the list: every child that stays
\* has indices[c] = its new position (one less for those that were past i).
C19_PopShiftsSurvivors ==
    [][(/\ Indexed
        /\ Len(children) >= 2
        /\ AllOccupied(children)
        /\ Sound(children, indices)
        /\ last'.op = "pop"
        /\ index_ok(children, last'.index))
       => LET i == norm_index(children, last'.index)
          IN  /\ last'.err = "ok"
              /\ children' = list_delitem(children, i)
              /\ \A k \in Positions(children) \ {i} :
                     LET c == At(children, k)
                     IN  /\ c \in DOMAIN indices'
                         /\ indices'[c] = IF k > i THEN k - 1 ELSE k]_vars

\* what append(child) must leave alone, from state s
AppendKeepsOthers(s, child) ==
    LET r == BDL_append(s, child)
    IN  /\ r.err = "ok"
        /\ Len(r.ch) >= Len(s.ch)
        /\ \A i \in Positions(s.ch) : At(s.ch, i) # None => At(r.ch, i) = At(s.ch, i)
        /\ \A c \in Children \ {child} :
               /\ r.par[c] = s.par[c]
               /\ (c \in DOMAIN r.ix) = (c \in DOMAIN s.ix)
               /\ c \in DOMAIN s.ix => r.ix[c] = s.ix[c]
        /\ \E p \in Positions(r.ch) :
               /\ Free(s.ch, p)
               /\ At(r.ch, p) = child
               /\ \A q \in Positions(r.ch) \ {p} :
                      At(r.ch, q) = IF q < Len(s.ch) THEN At(s.ch, q) ELSE None

\* C20: in every state of the indexed container append(child), child not
\* present, leaves every occupied slot as it was, leaves the parent and the
\* entry of every other child as they were, and changes one slot that was None
\* or past the end into child, any other new slot being None; also when
\* last_automatically_added_index + 1 is past the end after a deletion.
C20_AppendKeepsOthers ==
    Indexed => \A child \in Children \ Range(children) : AppendKeepsOthers(self, child)

\* C20's case: an append and then a deletion left a child at position 0 and
\* last_automatically_added_index + 1 past the end; the next append pads the
\* list up to that position and leaves the child at 0 alone
C20_Witness ==
    /\ Indexed /\ calls = 2
    /\ last.op \in {"delete", "delete_slice"} /\ last.err = "ok"
    /\ Len(children) = 1
    /\ At(children, 0) # None
    /\ last_automatically_added_index + 1 > Len(children)
    /\ \E child \in Children \ Range(children) :
           LET r == BDL_append(self, child)
           IN  /\ Len(r.ch) > Len(children) + 1
               /\ At(r.ch, 0) = At(children, 0)
               /\ At(r.ch, Len(r.ch) - 1) = child

=============================================================================
